---- MODULE Spec2Model ----
(***************************************************************************)
(* Collection Content Store of pressunto (app/lib/projects.server.ts):     *)
(* the config-document lifecycle, the collection loader, the order/commit  *)
(* builder, the tree filter and the front-matter codec.                    *)
(***************************************************************************)
EXTENDS Integers, Sequences, FiniteSets, TLC

VARIABLES
    \* ---- remote repository: the config document, one per branch
    cfg,            \* [Branches -> content of pressunto.config.json, or Absent]
    project,        \* the Project record the calls are made with ([branch])
    default_branch, \* the repository's default branch
    \* ---- the one in-flight config call
    pc,             \* position of the caller inside the call
    file,           \* the call's local `file` / `configFile`
    config,         \* updateConfigFile's `config` argument
    result,         \* what the last finished call did and returned
    prev,           \* the same for the call before it
    calm,           \* calls begun since the last external write (capped at 2)
    last,           \* name of the operation that took the last step
    \* ---- tree filter, applied to one tree and one collection route
    ftree,          \* the tree listing
    froute,         \* collection.route
    fselected,      \* collectionTree, once computed
    fdone,
    \* ---- document codec, applied to one raw text
    raw,            \* the text of a document of the repository
    stage,          \* "raw" -> "parsed" -> "serialized" -> "reparsed"
    doc,            \* processFileContent(raw)
    text,           \* the content updateCollectionFileOrder builds for doc
    doc2,           \* processFileContent(text)
    \* ---- remote repository: the documents of one collection
    repo,           \* [DocPaths -> content of the blob, or NoBlob]
    \* ---- the one in-flight collection call
    cpc,            \* position of the caller inside the call
    collectionTree, \* getCollectionFiles' filtered tree
    loaded,         \* outcome of the last getCollectionFiles call
    payload,        \* `files` of the last updateCollectionFileOrder call
    pending,        \* commits the call has still to issue
    commit,         \* outcome of the last updateCollectionFileOrder call
    moved,          \* the branch moved since commitAndPush read its head
    edits,          \* paths another writer edited since the last load
    fresh,          \* nothing was written since the last accepted reorder
    ext,            \* number of writes by other writers
    calls,          \* number of collection calls begun
    who,            \* name of the operation that took the last step
    \* ---- project registry
    db              \* the Redis keys: next_project_id, project:*, projects:*, repo:*

cfgVars == <<cfg, project, default_branch, pc, file, config, result, prev,
             calm, last>>

filterVars == <<ftree, froute, fselected, fdone>>

codecVars == <<raw, stage, doc, text, doc2>>

colVars == <<repo, cpc, collectionTree, loaded, payload, pending, commit,
             moved, edits, fresh, ext, calls, who>>

regVars == <<db>>

vars == <<cfgVars, filterVars, codecVars, colVars, regVars>>

notCfgVars == <<filterVars, codecVars, colVars, regVars>>
notFilterVars == <<cfgVars, codecVars, colVars, regVars>>
notCodecVars == <<cfgVars, filterVars, colVars, regVars>>
notColVars == <<cfgVars, filterVars, codecVars, regVars>>
notRegVars == <<cfgVars, filterVars, codecVars, colVars>>

----------------------------------------------------------------------------
(* Texts.  A string is the sequence of its tokens; a text of several lines *)
(* is the sequence of its lines, so "a\nb" is <<a, b>> and "" is <<"">>.   *)

Slash == "/"
Dot == "."

LastIndexOf(s, tok) ==
    LET at == {i \in 1..Len(s) : s[i] = tok}
    IN  IF at = {} THEN 0 ELSE CHOOSE i \in at : \A j \in at : j <= i

\* pathUtils.getDirname: the path up to its last "/"
getDirname(path) ==
    LET k == LastIndexOf(path, Slash)
    IN  IF k <= 1 THEN <<>> ELSE SubSeq(path, 1, k - 1)

\* pathUtils.getBasename: the path after its last "/"
getBasename(path) ==
    LET k == LastIndexOf(path, Slash)
    IN  IF k = Len(path) THEN <<>> ELSE SubSeq(path, k + 1, Len(path))

MarkdownExtensions == {"md", "mdx", "markdown"}

\* pathUtils.isMarkdown: the path ends in a markdown extension
isMarkdown(path) ==
    /\ Len(path) >= 2
    /\ path[Len(path) - 1] = Dot
    /\ path[Len(path)] \in MarkdownExtensions

\* collection.route.replace(/^\//, '')
stripLeadingSlash(route) ==
    IF Len(route) >= 1 /\ route[1] = Slash THEN Tail(route) ELSE route

----------------------------------------------------------------------------
(* Tree filter of getCollectionFiles                                       *)

\* a recursive filter: the route is a prefix of the entry's directory
inCollection_prefix(f, route) ==
    LET dir == getDirname(f.path)
        r == stripLeadingSlash(route)
    IN  Len(dir) >= Len(r) /\ SubSeq(dir, 1, Len(r)) = r

\* getDirname(f.path) === collection.route.replace(/^\//, '')
inCollection(f, route) == getDirname(f.path) = stripLeadingSlash(route)

\* tree.filter((f) => inCollection && isMarkdown(f.path))
filterCollection(tree, route) ==
    SelectSeq(tree, LAMBDA f : inCollection(f, route) /\ isMarkdown(f.path))

----------------------------------------------------------------------------
(* Document codec: front-matter's parse and the serialization of           *)
(* updateCollectionFileOrder                                               *)

Marker == <<"---">>
Blank == <<>>

\* decimal texts of the numbers of the model
Digits == <<"0", "1", "2", "3", "4", "5">>

IsNumberText(t) == \E i \in 1..Len(Digits) : Digits[i] = t
NumVal(t) == (CHOOSE i \in 1..Len(Digits) : Digits[i] = t) - 1
NumText(n) == Digits[n + 1]

\* attribute values are tagged: a number (kept by its decimal text) or a string
Num(n) == <<"num", NumText(n)>>
Str(t) == <<"str", t>>
IsNum(v) == v[1] = "num"

\* YAML double-quoted scalars of the model and the strings they denote
QuotedTexts == {"\"2\"", "\"a\""}
Unquote(t) == CASE t = "\"2\"" -> "2" [] t = "\"a\"" -> "a"

\* YAML resolution of a scalar: a quoted scalar is a string, a plain scalar
\* of digits is a number, any other plain scalar is a string
yamlScalar(t) ==
    IF t \in QuotedTexts THEN Str(Unquote(t))
    ELSE IF IsNumberText(t) THEN <<"num", t>>
    ELSE Str(t)

\* `${value}` of a template literal: a number prints its decimal text, a
\* string prints itself
templateText(v) == v[2]

\* yaml load of the block's lines (`key: value` lines; blank lines ignored)
yamlLoad(lines) ==
    LET kv == SelectSeq(lines, LAMBDA l : l # Blank)
    IN  [j \in 1..Len(kv) |-> [key |-> kv[j][1], value |-> yamlScalar(kv[j][3])]]

\* the closing marker line of a block opened on line 1 (0: none)
closingLine(content) ==
    LET at == {j \in 2..Len(content) : content[j] = Marker}
    IN  IF at = {} THEN 0 ELSE CHOOSE j \in at : \A k \in at : j <= k

\* the text after the block: the blank lines that follow the closing marker
\* belong to the match of front-matter's pattern (`\s*$` then one newline)
bodyAfter(lines) ==
    LET nb == {i \in 1..Len(lines) : lines[i] # Blank}
    IN  IF nb = {} THEN <<Blank>>
        ELSE SubSeq(lines, CHOOSE i \in nb : \A k \in nb : i <= k, Len(lines))

\* matter(content) of the front-matter package
matter(content) ==
    LET j == closingLine(content)
    IN  IF content[1] # Marker \/ j = 0
        THEN [attributes |-> <<>>, body |-> content]
        ELSE [attributes |-> yamlLoad(SubSeq(content, 2, j - 1)),
              body |-> bodyAfter(SubSeq(content, j + 1, Len(content)))]

HasKey(attributes, k) == \E j \in 1..Len(attributes) : attributes[j].key = k
Get(attributes, k) ==
    attributes[CHOOSE j \in 1..Len(attributes) : attributes[j].key = k].value

\* JavaScript truthiness of an attribute value
Truthy(v) == v # Num(0) /\ v # Str("")

\* content identifier of a blob: content-addressed
Sha(content) == <<"sha", content>>

processFileContent(fileContent) ==
    LET data == matter(fileContent.content)
        title == IF HasKey(data.attributes, "title")
                    /\ Truthy(Get(data.attributes, "title"))
                 THEN [from |-> "attribute", name |-> <<Get(data.attributes, "title")[2]>>]
                 ELSE [from |-> "basename", name |-> getBasename(fileContent.path)]
    IN  [id |-> fileContent.sha,
         title |-> title,
         path |-> fileContent.path,
         attributes |-> data.attributes,
         body |-> data.body]

\* files.indexOf(file), 0-based
indexOf(files, f) == (CHOOSE i \in 1..Len(files) :
                        files[i] = f /\ \A j \in 1..(i - 1) : files[j] # f) - 1

matterLine(files, f, entry) ==
    <<entry.key, ":",
      IF entry.key = "order" THEN NumText(indexOf(files, f))
      ELSE templateText(entry.value)>>

\* Object.entries(file.attributes).map(...).join('\n'): '' when there is no
\* attribute
matterLines(files, f) ==
    IF Len(f.attributes) = 0 THEN <<Blank>>
    ELSE [j \in 1..Len(f.attributes) |-> matterLine(files, f, f.attributes[j])]

\* ['---', matter, '---', '', file.body].join('\n')
fileContentOf(files, f) ==
    <<Marker>> \o matterLines(files, f) \o <<Marker, Blank>> \o f.body

----------------------------------------------------------------------------
(* Config document: constants and contents                                 *)

CONFIG_FILE_NAME == "pressunto.config.json"

CONFIG_FILE_TEMPLATE == "{\n  \"collections\": [],\n  \"templates\": []\n}\n"

Absent == "<absent>"

Branches == {"master", "main"}

\* project.branch: "" is an unset branch
ProjectBranches == {""} \cup Branches

EmptyConfig == [collections |-> <<>>, templates |-> <<>>]
PostsConfig == [collections |-> <<"posts">>, templates |-> <<>>]
PagesConfig == [collections |-> <<"pages">>, templates |-> <<>>]

\* the `config` values updateConfigFile is called with
Configs == {EmptyConfig, PostsConfig}

\* JSON.stringify(config, null, 2): no trailing newline
JSONstringify(c) ==
    CASE c = EmptyConfig -> "{\n  \"collections\": [],\n  \"templates\": []\n}"
      [] c = PostsConfig -> "{\n  \"collections\": [\n    \"posts\"\n  ],\n  \"templates\": []\n}"
      [] c = PagesConfig -> "{\n  \"collections\": [\n    \"pages\"\n  ],\n  \"templates\": []\n}"

\* JSON.parse of the texts the document can hold
JSONparse(txt) ==
    CASE txt = CONFIG_FILE_TEMPLATE -> EmptyConfig
      [] txt = JSONstringify(EmptyConfig) -> EmptyConfig
      [] txt = JSONstringify(PostsConfig) -> PostsConfig
      [] txt = JSONstringify(PagesConfig) -> PagesConfig

\* what another writer of the repository can put into the document
ExternalContents == {JSONstringify(PagesConfig), JSONstringify(PostsConfig)}

Contents == {CONFIG_FILE_TEMPLATE} \cup {JSONstringify(c) : c \in Configs}
            \cup ExternalContents

----------------------------------------------------------------------------
(* Provider primitives used on the config document (lib/github)            *)

\* an unset branch is the repository's default branch
ResolveBranch(branch) == IF branch = "" THEN default_branch ELSE branch

NoSha == <<>>
CurrentSha(blob) == IF blob = Absent THEN NoSha ELSE Sha(blob)

NoFile == [found |-> FALSE, content |-> "", sha |-> NoSha]

\* getFileContent(token, {file: CONFIG_FILE_NAME, repo, branch})
getFileContent(branch) ==
    LET blob == cfg[ResolveBranch(branch)]
    IN  IF blob = Absent THEN NoFile
        ELSE [found |-> TRUE, content |-> blob, sha |-> Sha(blob)]

\* getRepoFiles(token, repo, branch): the paths of the tree (config part)
getRepoFiles(branch) ==
    IF cfg[ResolveBranch(branch)] = Absent THEN {"README.md"}
    ELSE {"README.md", CONFIG_FILE_NAME}

\* saveFile is accepted iff the expected sha is the document's current one
\* (no sha: only a document that does not exist yet can be written)
saveAccepted(branch, sha) == CurrentSha(cfg[ResolveBranch(branch)]) = sha

\* the repository after an accepted saveFile
saveFile(branch, content) == [cfg EXCEPT ![ResolveBranch(branch)] = content]

\* the repository after deleteFile
deleteFile(branch) == [cfg EXCEPT ![ResolveBranch(branch)] = Absent]

----------------------------------------------------------------------------
(* Bookkeeping of finished calls                                           *)

\* the project's config document: the one on the project's branch
ProjectDoc(c) == c[ResolveBranch(project.branch)]

NoResult == [op |-> "none", status |-> "none", found |-> FALSE, stale |-> FALSE,
             saves |-> 0, deletes |-> 0, before |-> Absent, after |-> Absent,
             value |-> EmptyConfig, calm |-> 0]

\* what is kept of the call before the last one
Summary(r) == [op |-> r.op, status |-> r.status, found |-> r.found,
               saves |-> r.saves, after |-> r.after]

\* a call finishes: `r` describes it
Finish(r) ==
    /\ prev' = Summary(result)
    /\ result' = [r EXCEPT !.calm = calm']
    /\ pc' = "idle"
    /\ file' = NoFile

\* a call begins
Begin ==
    /\ pc = "idle"
    /\ calm' = IF calm < 2 THEN calm + 1 ELSE 2

----------------------------------------------------------------------------
(* createConfigFile                                                        *)

\* a lookup that never finds the document
createConfigFile_find_never(repoTree) == FALSE

\* repoTree.find((f) => f.path === CONFIG_FILE_NAME)
createConfigFile_find(repoTree) == CONFIG_FILE_NAME \in repoTree

createConfigFile_list ==
    /\ Begin
    /\ last' = "createConfigFile"
    /\ UNCHANGED notCfgVars
    /\ LET found == createConfigFile_find(getRepoFiles(project.branch))
       IN  IF found
           THEN /\ Finish([NoResult EXCEPT !.op = "createConfigFile", !.status = "ok",
                             !.found = TRUE, !.before = ProjectDoc(cfg),
                             !.after = ProjectDoc(cfg)])
           ELSE /\ pc' = "create_save"
                /\ file' = [NoFile EXCEPT !.found = found]
                /\ UNCHANGED <<result, prev>>
    /\ UNCHANGED <<cfg, project, default_branch, config>>

createConfigFile_save ==
    /\ pc = "create_save"
    /\ calm' = calm
    /\ last' = "createConfigFile"
    /\ UNCHANGED notCfgVars
    /\ LET ok == saveAccepted(project.branch, NoSha)
           cfg2 == IF ok THEN saveFile(project.branch, CONFIG_FILE_TEMPLATE) ELSE cfg
       IN  /\ cfg' = cfg2
           /\ Finish([NoResult EXCEPT !.op = "createConfigFile",
                        !.status = IF ok THEN "ok" ELSE "Conflict",
                        !.found = FALSE, !.saves = 1,
                        !.before = ProjectDoc(cfg), !.after = ProjectDoc(cfg2)])
    /\ UNCHANGED <<project, default_branch, config>>

----------------------------------------------------------------------------
(* updateConfigFile                                                        *)

\* saveFile's `branch: project.branch || 'master'`
updateConfigFile_branch(p) == IF p.branch = "" THEN "master" ELSE p.branch

updateConfigFile_fetch ==
    /\ Begin
    /\ last' = "updateConfigFile"
    /\ UNCHANGED notCfgVars
    /\ \E c \in Configs : config' = c
    /\ file' = getFileContent(project.branch)
    /\ pc' = "update_save"
    /\ UNCHANGED <<cfg, project, default_branch, result, prev>>

updateConfigFile_save ==
    /\ pc = "update_save"
    /\ calm' = calm
    /\ last' = "updateConfigFile"
    /\ UNCHANGED notCfgVars
    /\ LET branch == updateConfigFile_branch(project)
           ok == saveAccepted(branch, file.sha)
           content == JSONstringify(config)
           cfg2 == IF ok THEN saveFile(branch, content) ELSE cfg
       IN  /\ cfg' = cfg2
           /\ Finish([NoResult EXCEPT !.op = "updateConfigFile",
                        !.status = IF ok THEN "ok" ELSE "Conflict",
                        !.found = file.found, !.saves = 1,
                        !.stale = (CurrentSha(ProjectDoc(cfg)) # file.sha),
                        !.before = ProjectDoc(cfg), !.after = ProjectDoc(cfg2)])
    /\ UNCHANGED <<project, default_branch, config>>

----------------------------------------------------------------------------
(* deleteConfigFile                                                        *)

\* a guard that always lets the delete through
deleteConfigFile_if_always(f) == TRUE

\* `if (file)`
deleteConfigFile_if(f) == f.found

deleteConfigFile_fetch ==
    /\ Begin
    /\ last' = "deleteConfigFile"
    /\ UNCHANGED notCfgVars
    /\ LET f == getFileContent(project.branch)
       IN  IF deleteConfigFile_if(f)
           THEN /\ pc' = "delete_delete"
                /\ file' = f
                /\ UNCHANGED <<result, prev>>
           ELSE Finish([NoResult EXCEPT !.op = "deleteConfigFile", !.status = "ok",
                          !.found = f.found, !.before = ProjectDoc(cfg),
                          !.after = ProjectDoc(cfg)])
    /\ UNCHANGED <<cfg, project, default_branch, config>>

deleteConfigFile_delete ==
    /\ pc = "delete_delete"
    /\ calm' = calm
    /\ last' = "deleteConfigFile"
    /\ UNCHANGED notCfgVars
    /\ LET ok == cfg[ResolveBranch(project.branch)] # Absent
           cfg2 == IF ok THEN deleteFile(project.branch) ELSE cfg
       IN  /\ cfg' = cfg2
           /\ Finish([NoResult EXCEPT !.op = "deleteConfigFile",
                        !.status = IF ok THEN "ok" ELSE "NotFound",
                        !.found = file.found, !.deletes = 1,
                        !.before = ProjectDoc(cfg), !.after = ProjectDoc(cfg2)])
    /\ UNCHANGED <<project, default_branch, config>>

----------------------------------------------------------------------------
(* getProjectConfig                                                        *)

\* JSON.parse(file?.content || CONFIG_FILE_TEMPLATE)
getProjectConfig_value(f) ==
    JSONparse(IF f.found /\ f.content # "" THEN f.content ELSE CONFIG_FILE_TEMPLATE)

getProjectConfig ==
    /\ Begin
    /\ last' = "getProjectConfig"
    /\ UNCHANGED notCfgVars
    /\ LET f == getFileContent(project.branch)
       IN  Finish([NoResult EXCEPT !.op = "getProjectConfig", !.status = "ok",
                     !.found = f.found, !.before = ProjectDoc(cfg),
                     !.after = ProjectDoc(cfg),
                     !.value = getProjectConfig_value(f)])
    /\ UNCHANGED <<cfg, project, default_branch, config>>

----------------------------------------------------------------------------
(* Another writer of the repository                                        *)

ExternalWrite ==
    /\ \E b \in Branches, c \in ExternalContents \cup {Absent} :
          /\ cfg[b] # c
          /\ cfg' = [cfg EXCEPT ![b] = c]
    /\ calm' = 0
    /\ last' = "external"
    /\ UNCHANGED notCfgVars
    /\ UNCHANGED <<project, default_branch, pc, file, config, result, prev>>

----------------------------------------------------------------------------
(* The tree filter applied to one tree                                     *)

Path(dir, name, extension) == dir \o <<name, Dot, extension>>

\* the entries a tree listing can hold, in listing order
TreeEntries ==
    << [path |-> Path(<<"root", Slash>>, "a", "md"), type |-> "blob"],
       [path |-> Path(<<"root", Slash, "sub", Slash>>, "b", "md"), type |-> "blob"],
       [path |-> Path(<<"other", Slash>>, "c", "md"), type |-> "blob"],
       [path |-> Path(<<"root", Slash>>, "d", "txt"), type |-> "blob"],
       [path |-> Path(<<>>, "e", "md"), type |-> "blob"],
       [path |-> Path(<<"root", Slash>>, "f", "mdx"), type |-> "blob"],
       [path |-> Path(<<"rootx", Slash>>, "g", "md"), type |-> "blob"],
       [path |-> <<"root", Slash, "sub">>, type |-> "tree"] >>

Routes ==
    { <<"root">>, <<Slash, "root">>, <<Slash, Slash, "root">>, <<"root", Slash>>,
      <<>>, <<Slash>>, <<"root", Slash, "sub">>, <<Slash, "other">>, <<"none">> }

InitFilter ==
    /\ \E S \in SUBSET (1..Len(TreeEntries)) :
          ftree = SelectSeq(TreeEntries, LAMBDA e :
                              \E i \in S : TreeEntries[i] = e)
    /\ froute \in Routes
    /\ fselected = <<>>
    /\ fdone = FALSE

IdleFilter ==
    /\ ftree = <<>>
    /\ froute = <<>>
    /\ fselected = <<>>
    /\ fdone = FALSE

ApplyFilter ==
    /\ ~fdone
    /\ fselected' = filterCollection(ftree, froute)
    /\ fdone' = TRUE
    /\ UNCHANGED <<ftree, froute>>
    /\ UNCHANGED notFilterVars

----------------------------------------------------------------------------
(* The codec applied to one document                                       *)

TitleLines ==
    { <<>>, << <<"title", ":", "a">> >>, << <<"title", ":", "2">> >>,
      << <<"title", ":", "\"2\"">> >> }

OrderLines ==
    { <<>>, << <<"order", ":", "0">> >>, << <<"order", ":", "1">> >> }

Blocks == {t \o o : t \in TitleLines, o \in OrderLines}
          \cup {o \o t : t \in TitleLines, o \in OrderLines}

Bodies ==
    { <<Blank>>, << <<"x">> >>, << <<"x">>, Blank, <<"y">> >>,
      << Blank, <<"x">> >> }

\* well-formed texts: a body alone, or a metadata block and a body
RawTexts ==
    Bodies \cup {<<Marker>> \o b \o <<Marker>> \o t : b \in Blocks, t \in Bodies}

CodecPath == Path(<<"root", Slash>>, "a", "md")

NoDocument == [id |-> <<>>, title |-> [from |-> "none", name |-> <<>>],
               path |-> <<>>, attributes |-> <<>>, body |-> <<>>]

InitCodec ==
    /\ raw \in RawTexts
    /\ stage = "raw"
    /\ doc = NoDocument
    /\ text = <<>>
    /\ doc2 = NoDocument

IdleCodec ==
    /\ raw = <<>>
    /\ stage = "idle"
    /\ doc = NoDocument
    /\ text = <<>>
    /\ doc2 = NoDocument

Parse ==
    /\ stage = "raw"
    /\ doc' = processFileContent([content |-> raw, sha |-> Sha(raw), path |-> CodecPath])
    /\ stage' = "parsed"
    /\ UNCHANGED <<raw, text, doc2>>
    /\ UNCHANGED notCodecVars

Serialize ==
    /\ stage = "parsed"
    /\ text' = fileContentOf(<<doc>>, doc)
    /\ stage' = "serialized"
    /\ UNCHANGED <<raw, doc, doc2>>
    /\ UNCHANGED notCodecVars

Reparse ==
    /\ stage = "serialized"
    /\ doc2' = processFileContent([content |-> text, sha |-> Sha(text), path |-> CodecPath])
    /\ stage' = "reparsed"
    /\ UNCHANGED <<raw, doc, text>>
    /\ UNCHANGED notCodecVars

----------------------------------------------------------------------------
(* The collection: its documents in the repository                         *)

MaxExt == 1
MaxCalls == 3

\* file names of the collection's documents, in tree-listing order
DocNames == <<"c", "a", "b">>
NumDocs == Len(DocNames)

CollectionRoute == <<Slash, "root">>

DocPath(i) == Path(<<"root", Slash>>, DocNames[i], "md")
DocPaths == {DocPath(i) : i \in 1..NumDocs}

NoBlob == <<>>

\* the tree listing: the collection's documents that exist, then entries
\* that are not of the collection
OtherEntries ==
    << [path |-> Path(<<"root", Slash, "sub">> \o <<Slash>>, "n", "md"), type |-> "blob"],
       [path |-> Path(<<"other", Slash>>, "o", "md"), type |-> "blob"],
       [path |-> Path(<<"root", Slash>>, "r", "txt"), type |-> "blob"] >>

\* getRepoFiles(token, project.repo, project.branch)
getRepoTree ==
    SelectSeq([i \in 1..NumDocs |-> [path |-> DocPath(i), type |-> "blob"]],
              LAMBDA e : repo[e.path] # NoBlob)
    \o OtherEntries

\* getFileContent(token, {file: path, ...}): the blob, or nothing
NoContent == [found |-> FALSE, content |-> <<>>, sha |-> <<>>, path |-> <<>>]

getBlob(path) ==
    IF path \in DocPaths /\ repo[path] # NoBlob
    THEN [found |-> TRUE, content |-> repo[path], sha |-> Sha(repo[path]),
          path |-> path]
    ELSE NoContent

----------------------------------------------------------------------------
(* getCollectionFiles                                                      *)

\* a loop that drops the entries without content
parsedFiles_skipMissing(tree, contents) ==
    LET got == SelectSeq(contents, LAMBDA c : c.found)
    IN  [status |-> "ok", path |-> <<>>,
         docs |-> [i \in 1..Len(got) |-> processFileContent(got[i])]]

\* the loop over collectionTree: throw a 404 Response naming the first entry
\* without content, else push processFileContent(fileContent)
parsedFiles(tree, contents) ==
    LET missing == {i \in 1..Len(tree) : ~contents[i].found}
    IN  IF missing # {}
        THEN [status |-> "NotFound",
              path |-> tree[CHOOSE i \in missing : \A j \in missing : i <= j].path,
              docs |-> <<>>]
        ELSE [status |-> "ok", path |-> <<>>,
              docs |-> [i \in 1..Len(tree) |-> processFileContent(contents[i])]]

HasOrder(d) ==
    /\ HasKey(d.attributes, "order")
    /\ IsNumberText(Get(d.attributes, "order")[2])
OrderOf(d) == NumVal(Get(d.attributes, "order")[2])

\* (a, b) => a.attributes.order - b.attributes.order; NaN counts as +0
compareOrder(a, b) ==
    IF HasOrder(a) /\ HasOrder(b) THEN OrderOf(a) - OrderOf(b) ELSE 0

Orderings(n) ==
    {p \in [1..n -> 1..n] : \A i, j \in 1..n : p[i] = p[j] => i = j}

\* Array.prototype.sort as Node's engine runs it on an array shorter than
\* 32: the leading run is found (a strictly descending one is reversed), then
\* every later element is inserted by binary search.  Stable when the
\* comparator is consistent; with a comparator that is not (an order missing
\* next to different orders), the result below.
RECURSIVE runEnd(_, _, _)
runEnd(s, descending, idx) ==
    IF idx > Len(s) THEN Len(s)
    ELSE LET o == compareOrder(s[idx], s[idx - 1])
         IN  IF (descending /\ o >= 0) \/ (~descending /\ o < 0) THEN idx - 1
             ELSE runEnd(s, descending, idx + 1)

Reverse(s) == [i \in 1..Len(s) |-> s[Len(s) + 1 - i]]

RECURSIVE searchSlot(_, _, _, _)
searchSlot(s, pivot, left, right) ==
    IF left >= right THEN left
    ELSE LET mid == left + ((right - left) \div 2)
         IN  IF compareOrder(pivot, s[mid]) < 0
             THEN searchSlot(s, pivot, left, mid)
             ELSE searchSlot(s, pivot, mid + 1, right)

RECURSIVE binaryInsertion(_, _)
binaryInsertion(s, start) ==
    IF start > Len(s) THEN s
    ELSE LET slot == searchSlot(s, s[start], 1, start)
         IN  binaryInsertion(
                SubSeq(s, 1, slot - 1) \o <<s[start]>> \o SubSeq(s, slot, start - 1)
                    \o SubSeq(s, start + 1, Len(s)),
                start + 1)

sortByOrder(docs) ==
    IF Len(docs) < 2 THEN docs
    ELSE LET descending == compareOrder(docs[2], docs[1]) < 0
             run == runEnd(docs, descending, 3)
             made == IF descending
                     THEN Reverse(SubSeq(docs, 1, run)) \o SubSeq(docs, run + 1, Len(docs))
                     ELSE docs
         IN  binaryInsertion(made, run + 1)

\* outcome of a call: status and path of the error (if any), the documents
\* returned, and of the fetch: the number of entries, the paths without
\* content, whether a fetch rejected
NoLoad == [status |-> "none", path |-> <<>>, docs |-> <<>>, entries |-> 0,
           missing |-> <<>>, rejected |-> FALSE, afterReorder |-> FALSE]

getCollectionFiles_list ==
    /\ cpc = "idle"
    /\ calls < MaxCalls
    /\ calls' = calls + 1
    /\ collectionTree' = filterCollection(getRepoTree, CollectionRoute)
    /\ cpc' = "load_fetch"
    /\ who' = "getCollectionFiles"
    /\ UNCHANGED <<repo, loaded, payload, pending, commit, moved, edits, fresh, ext>>
    /\ UNCHANGED notColVars

\* Promise.all of the fetches (one of them may reject: `rejected`), then the
\* loop and the sort
getCollectionFiles_fetch ==
    /\ cpc = "load_fetch"
    /\ \E rejected \in 0..Len(collectionTree) :
          LET contents == [i \in 1..Len(collectionTree) |->
                              getBlob(collectionTree[i].path)]
              r == parsedFiles(collectionTree, contents)
              gone == SelectSeq([i \in 1..Len(collectionTree) |->
                                    collectionTree[i].path],
                                LAMBDA q : ~getBlob(q).found)
          IN  IF rejected # 0
              THEN loaded' = [NoLoad EXCEPT !.status = "ProviderError",
                                !.path = collectionTree[rejected].path,
                                !.entries = Len(collectionTree),
                                !.missing = gone, !.rejected = TRUE]
              ELSE    loaded' = [status |-> r.status, path |-> r.path,
                                 docs |-> sortByOrder(r.docs),
                                 entries |-> Len(collectionTree),
                                 missing |-> gone, rejected |-> FALSE,
                                 afterReorder |-> fresh]
    /\ edits' = {}
    /\ cpc' = "idle"
    /\ collectionTree' = <<>>
    /\ who' = "getCollectionFiles"
    /\ UNCHANGED <<repo, payload, pending, commit, moved, fresh, ext, calls>>
    /\ UNCHANGED notColVars

----------------------------------------------------------------------------
(* updateCollectionFileOrder                                               *)

\* files.map((f, i) => ({content: contents[i], path: f.path, ...}))
commitFiles(list) ==
    [i \in 1..Len(list) |->
        [path |-> list[i].path, content |-> fileContentOf(list, list[i])]]

\* one single-file commit per document
commitCalls_perFile(list) ==
    [i \in 1..Len(list) |-> <<commitFiles(list)[i]>>]

\* the commitAndPush calls of one reorder: one, with every file
commitCalls(list) == <<commitFiles(list)>>

NoCommit == [op |-> "none", status |-> "none", commits |-> 0, files |-> <<>>,
             lostEdit |-> FALSE]

\* the repository after an accepted commit of `changes`
commitAndPush(changes) ==
    [q \in DocPaths |->
        IF \E i \in 1..Len(changes) : changes[i].path = q
        THEN changes[CHOOSE i \in 1..Len(changes) : changes[i].path = q].content
        ELSE repo[q]]

\* an edit of another writer to `path` is not in the content written to it
LosesEdit(changes) ==
    \E i \in 1..Len(changes) :
        /\ changes[i].path \in edits
        /\ repo[changes[i].path] # NoBlob
        /\ matter(changes[i].content).body # matter(repo[changes[i].path]).body

updateCollectionFileOrder_call ==
    /\ cpc = "idle"
    /\ calls < MaxCalls
    /\ calls' = calls + 1
    /\ loaded.status = "ok"
    /\ \E p \in Orderings(Len(loaded.docs)) :
          payload' = [i \in 1..Len(loaded.docs) |-> loaded.docs[p[i]]]
    /\ pending' = commitCalls(payload')
    /\ commit' = NoCommit
    /\ moved' = FALSE
    /\ fresh' = FALSE
    /\ cpc' = "reorder_push"
    /\ who' = "updateCollectionFileOrder"
    /\ UNCHANGED <<repo, collectionTree, loaded, edits, ext>>
    /\ UNCHANGED notColVars

\* one commitAndPush call returns: rejected when the branch moved under it,
\* else applied as a whole; a rejection ends the reorder
updateCollectionFileOrder_push ==
    /\ cpc = "reorder_push"
    /\ pending # <<>>
    /\ LET changes == Head(pending)
           done == [commit EXCEPT !.op = "updateCollectionFileOrder",
                      !.commits = commit.commits + 1, !.files = changes]
       IN  IF moved
           THEN /\ commit' = [done EXCEPT !.status = "Conflict"]
                /\ cpc' = "idle"
                /\ pending' = <<>>
                /\ UNCHANGED <<repo, fresh, moved>>
           ELSE /\ repo' = commitAndPush(changes)
                /\ moved' = FALSE
                /\ pending' = Tail(pending)
                /\ IF Tail(pending) = <<>>
                   THEN /\ commit' = [done EXCEPT !.status = "ok",
                                        !.lostEdit = commit.lostEdit \/ LosesEdit(changes)]
                        /\ cpc' = "idle"
                        /\ fresh' = TRUE
                   ELSE /\ commit' = [done EXCEPT !.op = "none",
                                        !.lostEdit = commit.lostEdit \/ LosesEdit(changes)]
                        /\ cpc' = cpc
                        /\ fresh' = FALSE
    /\ who' = "updateCollectionFileOrder"
    /\ UNCHANGED <<collectionTree, loaded, payload, edits, ext, calls>>
    /\ UNCHANGED notColVars

----------------------------------------------------------------------------
(* Another writer of the collection                                        *)

\* the writer appends a line to the document's body
ExternalEdit ==
    /\ ext < MaxExt
    /\ \E q \in DocPaths :
          /\ repo[q] # NoBlob
          /\ repo' = [repo EXCEPT ![q] = repo[q] \o << <<"y">> >>]
          /\ edits' = edits \cup {q}
    /\ ext' = ext + 1
    /\ moved' = TRUE
    /\ fresh' = FALSE
    /\ who' = "external"
    /\ UNCHANGED <<cpc, collectionTree, loaded, payload, pending, commit, calls>>
    /\ UNCHANGED notColVars

ExternalDelete ==
    /\ ext < MaxExt
    /\ \E q \in DocPaths :
          /\ repo[q] # NoBlob
          /\ repo' = [repo EXCEPT ![q] = NoBlob]
    /\ ext' = ext + 1
    /\ moved' = TRUE
    /\ fresh' = FALSE
    /\ who' = "external"
    /\ UNCHANGED <<cpc, collectionTree, loaded, payload, pending, commit, edits, calls>>
    /\ UNCHANGED notColVars

\* a document with a title and, unless k < 0, the order k
StartContent(k) ==
    <<Marker, <<"title", ":", "a">>>>
    \o (IF k < 0 THEN <<>> ELSE << <<"order", ":", NumText(k)>> >>)
    \o <<Marker, Blank, <<"x">>>>

\* the i-th document starts without an order, or with one that puts the
\* documents in reverse listing order, or in the order a, b, c
StartContents(i) ==
    {StartContent(k) : k \in {-1, NumDocs - i, (i + 1) % NumDocs}}

InitCollection ==
    /\ repo \in {r \in [DocPaths -> UNION {StartContents(i) : i \in 1..NumDocs}] :
                    \A i \in 1..NumDocs : r[DocPath(i)] \in StartContents(i)}
    /\ cpc = "idle"
    /\ collectionTree = <<>>
    /\ loaded = NoLoad
    /\ payload = <<>>
    /\ pending = <<>>
    /\ commit = NoCommit
    /\ moved = FALSE
    /\ edits = {}
    /\ fresh = FALSE
    /\ ext = 0
    /\ calls = 0
    /\ who = "none"

IdleCollection ==
    /\ repo = [q \in DocPaths |-> NoBlob]
    /\ cpc = "idle"
    /\ collectionTree = <<>>
    /\ loaded = NoLoad
    /\ payload = <<>>
    /\ pending = <<>>
    /\ commit = NoCommit
    /\ moved = FALSE
    /\ edits = {}
    /\ fresh = FALSE
    /\ ext = 0
    /\ calls = 0
    /\ who = "none"

NextCollection ==
    \/ getCollectionFiles_list
    \/ getCollectionFiles_fetch
    \/ updateCollectionFileOrder_call
    \/ updateCollectionFileOrder_push
    \/ ExternalEdit
    \/ ExternalDelete

----------------------------------------------------------------------------
(* Project registry (createProject, updateProject, deleteProject)          *)

MaxProjects == 2

Users == {"u1", "u2"}
Repos == {"r1", "r2"}
Titles == {"s", "t"}

\* values of next_project_id; ids are handed out from 1
ProjectIds == 1..MaxProjects

\* what db.get answers for a key that is not set
NoProject == [id |-> 0, user |-> "", title |-> "", repo |-> ""]
NoId == 0

\* Omit<Project, 'id'>
NewProjects == [user : Users, title : Titles, repo : Repos]

\* the keys before the first call
EmptyDb ==
    [next_project_id |-> 0,
     project  |-> [id \in ProjectIds |-> NoProject],
     projects |-> [u \in Users |-> {}],
     repo     |-> [r \in Repos |-> NoId]]

\* db.smembers(`projects:${user}`)
smembers(user) == db.projects[user]

\* db.get(`project:${id}`)
getProject(id) == db.project[id]

\* db.get(`repo:${repo}`)
getIdForRepo(repoName) == db.repo[repoName]

\* db.mget of the user's ids (the sort by title leaves the set as it is)
getUserProjects(user) == {getProject(id) : id \in smembers(user)}

\* db.incr, then sadd, set project:id, set repo:repo
createProject ==
    /\ db.next_project_id < MaxProjects
    /\ \E project_ \in NewProjects :
          LET id == db.next_project_id + 1
          IN  db' = [db EXCEPT
                       !.next_project_id = id,
                       !.projects[project_.user] = @ \cup {id},
                       !.project[id] = [id |-> id, user |-> project_.user,
                                        title |-> project_.title,
                                        repo |-> project_.repo],
                       !.repo[project_.repo] = id]
    /\ UNCHANGED notRegVars

\* the Project values updateProject is called with: a stored project with
\* its title or its repo edited
EditedProjects ==
    {[p EXCEPT !.title = t, !.repo = r] :
        p \in {getProject(id) : id \in ProjectIds} \ {NoProject},
        t \in Titles, r \in Repos}

\* db.set(`project:${project.id}`, project)
updateProject ==
    /\ \E project_ \in EditedProjects :
          db' = [db EXCEPT !.project[project_.id] = project_]
    /\ UNCHANGED notRegVars

\* srem projects:user id, del project:id, del repo:repo; called with a
\* stored project
deleteProject ==
    /\ \E id \in ProjectIds :
          LET project_ == getProject(id)
          IN  /\ project_ # NoProject
              /\ db' = [db EXCEPT
                          !.projects[project_.user] = @ \ {project_.id},
                          !.project[project_.id] = NoProject,
                          !.repo[project_.repo] = NoId]
    /\ UNCHANGED notRegVars

InitRegistry == db = EmptyDb

IdleRegistry == db = EmptyDb

NextRegistry == createProject \/ updateProject \/ deleteProject

----------------------------------------------------------------------------
(* Specifications                                                          *)

ConfigStart ==
    /\ cfg \in [Branches -> {Absent, CONFIG_FILE_TEMPLATE}]
    /\ project \in [branch : ProjectBranches]
    /\ default_branch \in Branches
    /\ pc = "idle"
    /\ file = NoFile
    /\ config = EmptyConfig
    /\ result = NoResult
    /\ prev = Summary(NoResult)
    /\ calm = 0
    /\ last = "none"

IdleConfig ==
    /\ cfg = [b \in Branches |-> Absent]
    /\ project = [branch |-> ""]
    /\ default_branch = "master"
    /\ pc = "idle"
    /\ file = NoFile
    /\ config = EmptyConfig
    /\ result = NoResult
    /\ prev = Summary(NoResult)
    /\ calm = 0
    /\ last = "none"

InitConfig ==
    ConfigStart /\ IdleFilter /\ IdleCodec /\ IdleCollection /\ IdleRegistry

NextConfig ==
    \/ createConfigFile_list
    \/ createConfigFile_save
    \/ updateConfigFile_fetch
    \/ updateConfigFile_save
    \/ deleteConfigFile_fetch
    \/ deleteConfigFile_delete
    \/ getProjectConfig
    \/ ExternalWrite

SpecConfig == InitConfig /\ [][NextConfig]_vars

InitFilterOnly ==
    IdleConfig /\ InitFilter /\ IdleCodec /\ IdleCollection /\ IdleRegistry

NextFilter == ApplyFilter

SpecFilter == InitFilterOnly /\ [][NextFilter]_vars

NextCodec == Parse \/ Serialize \/ Reparse

InitCodecOnly ==
    IdleConfig /\ IdleFilter /\ InitCodec /\ IdleCollection /\ IdleRegistry

SpecCodec == InitCodecOnly /\ [][NextCodec]_vars

Init ==
    IdleConfig /\ IdleFilter /\ IdleCodec /\ InitCollection /\ IdleRegistry

Next == NextCollection

Spec == Init /\ [][Next]_vars

InitRegistryOnly ==
    IdleConfig /\ IdleFilter /\ IdleCodec /\ IdleCollection /\ InitRegistry

SpecRegistry == InitRegistryOnly /\ [][NextRegistry]_vars

----------------------------------------------------------------------------
(* Properties of the tree filter                                           *)

NoSlashFrom(path, k) == \A i \in k..Len(path) : path[i] # Slash

\* `path` names an entry directly inside directory `dir` ("" is the root)
DirectlyIn(path, dir) ==
    IF dir = <<>> THEN NoSlashFrom(path, 1)
    ELSE /\ Len(path) > Len(dir) + 1
         /\ SubSeq(path, 1, Len(dir)) = dir
         /\ path[Len(dir) + 1] = Slash
         /\ NoSlashFrom(path, Len(dir) + 2)

EndsInMarkdown(path) ==
    \E e \in MarkdownExtensions :
        Len(path) >= 2 /\ SubSeq(path, Len(path) - 1, Len(path)) = <<Dot, e>>

Selected(e) == \E k \in 1..Len(fselected) : fselected[k] = e

ExampleA == [path |-> <<"root", Slash, "a", Dot, "md">>, type |-> "blob"]
ExampleB == [path |-> <<"root", Slash, "sub", Slash, "b", Dot, "md">>, type |-> "blob"]
ExampleC == [path |-> <<"other", Slash, "c", Dot, "md">>, type |-> "blob"]

\* C7: the filter selects, in listing order, exactly the entries directly
\* inside the route (one leading slash stripped) that end in a markdown
\* extension: no entry of a nested or of another directory; for the tree
\* {root/a.md, root/sub/b.md, other/c.md} and route root or /root, root/a.md
\* alone.
C7_FilterSelectsFlatMarkdown ==
    fdone =>
        /\ fselected = SelectSeq(ftree, Selected)
        /\ \A i \in 1..Len(ftree) :
              Selected(ftree[i]) <=>
                 (/\ DirectlyIn(ftree[i].path,
                                IF froute # <<>> /\ Head(froute) = Slash
                                THEN Tail(froute) ELSE froute)
                  /\ EndsInMarkdown(ftree[i].path))
        /\ (froute \in {<<"root">>, <<Slash, "root">>}
            /\ ftree = <<ExampleA, ExampleB, ExampleC>>)
              => fselected = <<ExampleA>>

\* C7 witness: the filter ran on the example tree with route /root
C7_Witness ==
    /\ fdone
    /\ froute = <<Slash, "root">>
    /\ ftree = <<ExampleA, ExampleB, ExampleC>>
    /\ fselected = <<ExampleA>>

----------------------------------------------------------------------------
(* Properties of the codec                                                 *)

SameApartFromOrder(a, b) ==
    /\ Len(a) = Len(b)
    /\ \A j \in 1..Len(a) :
          /\ a[j].key = b[j].key
          /\ a[j].key # "order" => a[j].value = b[j].value

\* C8: parsing the text serialized for a parsed document gives back its
\* attributes (same keys, same values of the same type, apart from order)
\* and its body
C8_RoundTrip ==
    stage = "reparsed" =>
        /\ SameApartFromOrder(doc2.attributes, doc.attributes)
        /\ doc2.body = doc.body

----------------------------------------------------------------------------
(* Properties of the collection                                            *)

\* C1: a getCollectionFiles that follows an accepted reorder returns the
\* documents of the supplied list, each with attributes.order equal to its
\* index in that list (0..n-1)
C1_ReorderRenumbers ==
    (loaded.status = "ok" /\ loaded.afterReorder) =>
        /\ Len(loaded.docs) = Len(payload)
        /\ \A i \in 1..Len(loaded.docs) :
              /\ loaded.docs[i].path = payload[i].path
              /\ HasOrder(loaded.docs[i])
              /\ OrderOf(loaded.docs[i]) = i - 1

\* C4 (as claimed): getCollectionFiles returns one document per selected
\* entry, or fails with NotFound (404) naming a missing path and returns no
\* document
C4_AllOrNotFound ==
    loaded.status # "none" =>
        \/ loaded.status = "ok" /\ Len(loaded.docs) = loaded.entries
        \/ /\ loaded.status = "NotFound"
           /\ loaded.docs = <<>>
           /\ \E k \in 1..Len(loaded.missing) : loaded.missing[k] = loaded.path

\* C4 (amended): getCollectionFiles returns one document per selected entry
\* when every fetch yields content; it fails with the rejection when a fetch
\* rejects; otherwise it fails with NotFound (404) naming the first entry,
\* in tree order, whose fetch yielded nothing; a failed call returns no
\* document.
C4_AllOrNothing ==
    loaded.status # "none" =>
        /\ loaded.rejected =>
              loaded.status = "ProviderError" /\ loaded.docs = <<>>
        /\ (~loaded.rejected /\ loaded.missing # <<>>) =>
              /\ loaded.status = "NotFound"
              /\ loaded.path = Head(loaded.missing)
              /\ loaded.docs = <<>>
        /\ (~loaded.rejected /\ loaded.missing = <<>>) =>
              /\ loaded.status = "ok"
              /\ Len(loaded.docs) = loaded.entries

\* C4 witness: of three selected entries, one had no content when fetched
C4_Witness ==
    /\ loaded.status = "NotFound"
    /\ loaded.entries = 3
    /\ Len(loaded.missing) = 1
    /\ loaded.docs = <<>>

\* C5: a reorder issues one commitAndPush call, holding one change per
\* supplied document at that document's path; a rejected commit ends the
\* call (no second commit) and changes nothing; every step of a reorder
\* leaves the repository as it was or with every supplied document rewritten.
C5_SingleAtomicCommit ==
    /\ [](commit.op = "updateCollectionFileOrder" =>
            /\ commit.commits = 1
            /\ Len(commit.files) = Len(payload)
            /\ \A i \in 1..Len(payload) :
                  /\ commit.files[i].path = payload[i].path
                  /\ commit.files[i].content = fileContentOf(payload, payload[i]))
    /\ [][who' = "updateCollectionFileOrder" =>
            /\ \/ repo' = repo
               \/ \A i \in 1..Len(payload') :
                     repo'[payload'[i].path] = fileContentOf(payload', payload'[i])
            /\ commit'.status = "Conflict" => (repo' = repo /\ cpc' = "idle")]_vars

\* C5 witness: a reorder of every document of the collection was committed
C5_Witness ==
    /\ commit.op = "updateCollectionFileOrder"
    /\ commit.status = "ok"
    /\ commit.commits = 1
    /\ Len(commit.files) = NumDocs

FetchIndex(d) == CHOOSE k \in 1..NumDocs : DocPath(k) = d.path

\* C6: the documents returned are in ascending order of attributes.order
\* wherever both of a pair have one, and documents of equal order, or both
\* without one, are in fetch order
C6_SortedStable ==
    loaded.status = "ok" =>
        \A i, j \in 1..Len(loaded.docs) : i < j =>
            LET a == loaded.docs[i]
                b == loaded.docs[j]
            IN  /\ (HasOrder(a) /\ HasOrder(b)) => OrderOf(a) <= OrderOf(b)
                /\ (\/ (HasOrder(a) /\ HasOrder(b) /\ OrderOf(a) = OrderOf(b))
                    \/ (~HasOrder(a) /\ ~HasOrder(b)))
                      => FetchIndex(a) < FetchIndex(b)

\* C10: an accepted reorder has not dropped an edit another writer made to
\* a document since the caller loaded the collection
C10_NoLostEdit ==
    (commit.op = "updateCollectionFileOrder" /\ commit.status = "ok")
        => ~commit.lostEdit

----------------------------------------------------------------------------
(* Properties of the config document                                       *)

\* C2: whenever another writer changed the project's config document after
\* updateConfigFile fetched its content identifier and before its write, the
\* write is rejected with Conflict and the document keeps that writer's
\* content.
C2_NoSilentOverwrite ==
    (result.op = "updateConfigFile" /\ result.stale)
        => (result.status = "Conflict" /\ result.after = result.before)

\* C3: a createConfigFile call that finds the document performs no write and
\* leaves it byte-identical; two calls in a row that start from an absent
\* document perform one write in total, the second leaving the first's
\* content in place.
C3_EnsureConfigIdempotent ==
    /\ (result.op = "createConfigFile" /\ result.found)
          => (result.saves = 0 /\ result.after = result.before
              /\ result.status = "ok")
    /\ (/\ result.op = "createConfigFile"
        /\ prev.op = "createConfigFile"
        /\ ~prev.found
        /\ result.calm = 2)
          => (/\ prev.saves + result.saves = 1
              /\ prev.status = "ok"
              /\ prev.after = CONFIG_FILE_TEMPLATE
              /\ result.after = prev.after)

\* C3 witness: a second createConfigFile call in a row, the first having
\* started from an absent document
C3_Witness ==
    /\ result.op = "createConfigFile" /\ result.found /\ result.calm = 2
    /\ prev.op = "createConfigFile" /\ ~prev.found /\ prev.saves = 1

\* C9 (as claimed): getProjectConfig, updateConfigFile and deleteConfigFile
\* called while the document is absent (and nobody else writes) leave it
\* absent; only createConfigFile brings it into existence.
C9_OnlyCreateBringsIntoExistence ==
    (/\ result.op \in {"getProjectConfig", "updateConfigFile", "deleteConfigFile"}
     /\ ~result.found
     /\ result.calm >= 1)
        => result.after = Absent

\* C9 (amended): the document is brought into existence only by
\* createConfigFile or updateConfigFile; getProjectConfig and
\* deleteConfigFile called while it is absent leave it absent,
\* getProjectConfig returning the default structure and deleteConfigFile
\* issuing no delete.
C9_Lifecycle ==
    /\ [][\A b \in Branches :
            (cfg[b] = Absent /\ cfg'[b] # Absent /\ last' # "external")
                => last' \in {"createConfigFile", "updateConfigFile"}]_vars
    /\ [](result.op = "getProjectConfig" /\ ~result.found
            => (/\ result.before = Absent /\ result.after = Absent
                /\ result.saves = 0 /\ result.deletes = 0
                /\ result.value = EmptyConfig))
    /\ [](result.op = "deleteConfigFile" /\ ~result.found
            => (/\ result.before = Absent /\ result.after = Absent
                /\ result.deletes = 0 /\ result.saves = 0))
    /\ [](result.op = "deleteConfigFile" /\ result.found /\ result.calm >= 1
            => (result.deletes = 1 /\ result.after = Absent))

\* C9 witness: updateConfigFile, called while the document is absent, has
\* created it
C9_Witness ==
    /\ result.op = "updateConfigFile" /\ ~result.found /\ result.calm >= 1
    /\ result.before = Absent /\ result.after # Absent

\* C11: updateConfigFile writes to the branch it fetched the content
\* identifier from: once it has fetched, the branch its save is addressed to
\* is the project's branch, or the repository's default branch when the
\* project's branch is unset.
C11_OneBranch ==
    pc = "update_save"
        => ResolveBranch(updateConfigFile_branch(project))
               = ResolveBranch(project.branch)

----------------------------------------------------------------------------
(* Properties of the project registry                                      *)

\* C12: after every createProject, updateProject and deleteProject call,
\* each stored record project:{id} = p has id in projects:{p.user} and
\* repo:{p.repo} = id, and no member of a projects:{user} set and no
\* repo:{repo} entry names an id without a stored record.
C12_RegistryConsistent ==
    /\ \A id \in ProjectIds :
          LET p == getProject(id)
          IN  p # NoProject
                => (/\ p.id = id
                    /\ id \in smembers(p.user)
                    /\ getIdForRepo(p.repo) = id)
    /\ \A u \in Users : NoProject \notin getUserProjects(u)
    /\ \A r \in Repos :
          getIdForRepo(r) # NoId => getProject(getIdForRepo(r)) # NoProject

====
